---- MODULE Spec2Model ----
(***************************************************************************)
(* Model of src/scripts/sync/sync-org-projects.ts: updateOrgTargets and    *)
(* updateTargets, the two nested pMap fan-outs (sources, targets), and the *)
(* collaborators they await.  Every action is one continuation of the      *)
(* single-threaded event loop: the code that runs between two awaits.      *)
(***************************************************************************)
EXTENDS Integers, Sequences, FiniteSets, TLC

(* ------------------------------ bounds --------------------------------- *)
MaxSources == 4      \* longest list of requested sources
MaxTargets == 2      \* most targets handed to updateTargets calls in one run
MaxProjects == 2     \* most projects under one target
MaxPoolTargets == 22 \* most targets of a direct updateTargets call (PoolSpec)

(* ------------------------- program constants --------------------------- *)
SourceConcurrency == 3     \* pMap(allowedSources, ..., { concurrency: 3 })
TargetConcurrency == 20    \* pMap(targets, ..., { concurrency: 20 })

SupportedIntegrationTypesUpdateProject == {"github"}
SourceNames == {"github", "bitbucket"}
UPDATED_PROJECTS_LOG_NAME == "updated-projects.log"
FAILED_UPDATE_PROJECTS_LOG_NAME == "failed-to-update-projects.log"

(* ------------------------------- world --------------------------------- *)
Branches == {"main", "dev"}
ErrorTexts == {"Error"}
TargetIds == 1..MaxTargets
\* the second target tracks MaxProjects projects, every other target one;
\* project k of target t is <<t, k>>
NumProjects(t) == IF t = 2 THEN MaxProjects ELSE 1
ProjectsOf(t) == {<<t, k>> : k \in 1..NumProjects(t)}
AllProjects == UNION {ProjectsOf(t) : t \in TargetIds}
Slots == 1..MaxSources
\* the platform's records when the run starts: every project on "main", or the
\* projects of a target alternating between "main" and "dev"
InitialBranches ==
  {[p \in AllProjects |-> "main"],
   [p \in AllProjects |-> IF p[2] % 2 = 1 THEN "main" ELSE "dev"]}
Requests == UNION {[1..n -> SourceNames] : n \in 0..MaxSources}

VARIABLES
  sources,    \* updateOrgTargets: the requested sources
  dryRun,     \* the dryRun argument
  orgPc,      \* updateOrgTargets: where the call stands
  orgErr,     \* updateOrgTargets: the error it rejected with
  flagSeen,   \* updateOrgTargets: how the feature-flag lookup settled
  allowed,    \* updateOrgTargets: allowedSources
  res,        \* updateOrgTargets: the res accumulator
  out,        \* updateOrgTargets: the value it resolved with
  src,        \* per source task of the outer pMap: its position
  ut,         \* per updateTargets call: its locals and the inner pMap
  tasks,      \* per target task of an updateTargets call: its position and locals
  orgTargets, \* the platform: the targets the org tracks for a supported source
  logPathOk,  \* the environment: does getLoggingPath find SNYK_LOG_PATH set
  configured, \* the environment: does isGithubConfigured find its token
  branch,     \* the platform: recorded branch of every project
  calls,      \* how often each collaborator was invoked in the current run
  prev        \* the caller: what the first run returned and did, once a second runs

vars == <<sources, dryRun, orgPc, orgErr, flagSeen, allowed, res, out, src, ut, tasks,
          orgTargets, logPathOk, configured, branch, calls, prev>>

Collaborators == {"getFeatureFlag", "isSourceConfigured", "listTargets", "listProjects",
                  "getDefaultBranch", "updateProject", "logUpdatedProjects",
                  "logFailedToUpdateProjects", "logFailedSync", "getLoggingPath"}

\* the call counters after invoking collaborator f another k times
Bump(c, f, k) == [c EXCEPT ![f] = @ + k]

(* ----------------------------- sequences ------------------------------- *)
RECURSIVE SumSeq(_)
SumSeq(s) == IF s = <<>> THEN 0 ELSE Head(s) + SumSeq(Tail(s))

RECURSIVE Flatten(_)
Flatten(ss) == IF ss = <<>> THEN <<>> ELSE Head(ss) \o Flatten(Tail(ss))

Min(a, b) == IF a < b THEN a ELSE b

(* ------------------ sync-projects-per-target (records) ----------------- *)
ProjectUpdate(p, from, to, dry, target) ==
  [projectPublicId |-> p, from |-> from, to |-> to, type |-> "branch",
   dryRun |-> dry, target |-> target]

\* the message as the sequence of the parts the template string joins
FailureMessage(p, text) ==
  <<"Failed to update project", ToString(p), "via Snyk API. ERROR:", text>>

ProjectUpdateFailure(p, from, to, dry, target, text) ==
  [projectPublicId |-> p, from |-> from, to |-> to, type |-> "branch",
   dryRun |-> dry, target |-> target, errorMessage |-> FailureMessage(p, text)]

(* --------------- sync-projects-per-target (control flow) --------------- *)
\* how often syncProjectsForTarget fetches the default branch once the listing
\* resolved: once for the target, whatever the number of its projects
DefaultBranchFetchesPerProject(projects) == Len(projects)

DefaultBranchFetches(projects) == 1

\* What the project lister returns for target t: its projects in listing order,
\* each with the branch the platform records for it now.
ListedProjects(t, br) ==
  [k \in 1..NumProjects(t) |-> [id |-> <<t, k>>, branch |-> br[<<t, k>>]]]

\* BranchDecisionMaker: does project p need an update to branch `to`?
NeedsUpdateAlways(p, to) == TRUE

NeedsUpdate(p, to) == p.branch # to

\* The project loop of syncProjectsForTarget from project tk.idx on, up to its next
\* await: it stops at the first project that needs the update call, or at the end.
RECURSIVE SyncLoop(_, _)
SyncLoop(tk, dry) ==
  IF tk.idx > Len(tk.projects) THEN tk
  ELSE LET p == tk.projects[tk.idx] IN
       IF ~NeedsUpdate(p, tk.to)
         THEN SyncLoop([tk EXCEPT !.idx = @ + 1], dry)
       ELSE IF dry
         THEN SyncLoop([tk EXCEPT !.idx = @ + 1,
                                  !.updated = Append(@, ProjectUpdate(p.id, p.branch,
                                                       tk.to, TRUE, tk.target))], dry)
       ELSE tk

\* The update call for project tk.idx settled with outcome o ("ok" or an error text).
AfterUpdate(tk, o) ==
  LET p == tk.projects[tk.idx] IN
  IF o = "ok"
    THEN [tk EXCEPT !.idx = @ + 1,
                    !.updated = Append(@, ProjectUpdate(p.id, p.branch, tk.to, FALSE,
                                                        tk.target))]
    ELSE [tk EXCEPT !.idx = @ + 1,
                    !.failed = Append(@, ProjectUpdateFailure(p.id, p.branch, tk.to,
                                                              FALSE, tk.target, o))]

(* --------------------------- updateTargets ----------------------------- *)
IdleTask ==
  [pc |-> "idle", target |-> 0, projects |-> <<>>, to |-> "none", idx |-> 1,
   updated |-> <<>>, failed |-> <<>>, err |-> "none", synced |-> FALSE,
   logU |-> <<>>, logF |-> <<>>, logS |-> <<>>, upd |-> <<>>, trace |-> <<>>]

NoTasks == [j \in TargetIds |-> IdleTask]

NoCall ==
  [st |-> "none", targets |-> <<>>, processedTargets |-> 0, processed |-> {},
   updatedProjects |-> <<>>, failedProjects |-> <<>>, nextIdx |-> 1, err |-> "none",
   resolvingCount |-> 0, completed |-> <<>>]

\* the fields of a target task: pc, where the mapper stands; target, its argument;
\* projects, to, idx, updated, failed: the locals of syncProjectsForTarget (and the
\* destructured result); err, the error the catch block caught; synced, whether
\* syncProjectsForTarget resolved; logU, logF, logS: the arguments of every call of
\* logUpdatedProjects, logFailedToUpdateProjects and logFailedSync the task made;
\* upd: how the update call settled for each project it was issued for; trace: the
\* collaborators the task called, in call order

\* the mapper is invoked for target t: it runs up to the await of listProjects
StartTaskShared(t) ==
  [IdleTask EXCEPT !.pc = "listProjects", !.target = 1, !.trace = <<"listProjects">>]

StartTask(t) ==
  [IdleTask EXCEPT !.pc = "listProjects", !.target = t, !.trace = <<"listProjects">>]

\* lines 122-128 and 179-185: the dryRun argument is handed down unchanged
PassedDryRunDefault(d) == FALSE

PassedDryRun(d) == d

\* lines 186-188: the target's records and the counter go into the accumulators
AccumulateInFront(u, j, updated, failed) ==
  [u EXCEPT !.updatedProjects = updated \o @,
            !.failedProjects = failed \o @,
            !.processedTargets = @ + 1,
            !.processed = @ \cup {j}]

AccumulateTwice(u, j, updated, failed) ==
  [u EXCEPT !.updatedProjects = @ \o updated \o updated,
            !.failedProjects = @ \o failed,
            !.processedTargets = @ + 1,
            !.processed = @ \cup {j}]

AccumulateSwapped(u, j, updated, failed) ==
  [u EXCEPT !.updatedProjects = @ \o failed,
            !.failedProjects = @ \o updated,
            !.processedTargets = @ + 1,
            !.processed = @ \cup {j}]

AccumulateDropsFailed(u, j, updated, failed) ==
  [u EXCEPT !.updatedProjects = @ \o updated,
            !.processedTargets = @ + 1,
            !.processed = @ \cup {j}]

Accumulate(u, j, updated, failed) ==
  [u EXCEPT !.updatedProjects = @ \o updated,
            !.failedProjects = @ \o failed,
            !.processedTargets = @ + 1,
            !.processed = @ \cup {j}]

\* lines 196-203: the catch block leaves the accumulators alone
OnTargetErrorCounts(u, j) ==
  [u EXCEPT !.processedTargets = @ + 1, !.processed = @ \cup {j}]

OnTargetError(u, j) == u

\* line 190 and line 193: a logger is called for a non-empty list only
ShouldLogAlways(records) == TRUE

ShouldLog(records) == Len(records) # 0

\* the catch block up to its await: logFailedSync(orgId, target, errorMessage, ..)
Catch(u, tk, j, e) ==
  [u |-> OnTargetError(u, j),
   tk |-> [tk EXCEPT !.pc = "logFailedSync", !.err = e,
                     !.logS = Append(@, [target |-> tk.target, message |-> e])],
   called |-> <<"logFailedSync">>]

\* lines 193-195, reached when logUpdatedProjects resolved or was not called
AfterLogUpdated(u, tk) ==
  IF ShouldLog(tk.failed)
    THEN [u |-> u,
          tk |-> [tk EXCEPT !.pc = "logFailed", !.logF = Append(@, tk.failed)],
          called |-> <<"logFailedToUpdateProjects">>]
    ELSE [u |-> u, tk |-> [tk EXCEPT !.pc = "done"], called |-> <<>>]

\* lines 186-192, reached when syncProjectsForTarget resolved; completed keeps the
\* order in which the syncProjectsForTarget calls of the batch resolved
SyncReturned(u, tk, j) ==
  LET u1 == [Accumulate(u, j, tk.updated, tk.failed) EXCEPT
               !.completed = Append(u.completed, j)]
      tk1 == [tk EXCEPT !.synced = TRUE]
  IN IF ShouldLog(tk.updated)
       THEN [u |-> u1,
             tk |-> [tk1 EXCEPT !.pc = "logUpdated", !.logU = Append(@, tk.updated)],
             called |-> <<"logUpdatedProjects">>]
       ELSE AfterLogUpdated(u1, tk1)

\* syncProjectsForTarget after its project loop ran to its next await or to its end
Continue(u, tk, j) ==
  IF tk.idx <= Len(tk.projects)
    THEN [u |-> u, tk |-> [tk EXCEPT !.pc = "updateProject"],
          called |-> <<"updateProject">>]
    ELSE SyncReturned(u, tk, j)

\* pMap(items, mapper, { concurrency }): how many mappers its initial loop starts
PMapStartsAll(n, concurrency) == n

PMapStarts(n, concurrency) == Min(n, concurrency)

\* pMap resolves when the items are used up and no mapper is in flight
PMapSettledEarly(u) == TRUE

PMapSettled(u) == u.resolvingCount = 0

\* pMap's next() after a mapper resolved: start the next target if one is left
\* (start is its index, 0 when none is started), resolve when none is left and
\* none is in flight; nothing once pMap rejected
PMapNext(u) ==
  IF u.st = "rejected" THEN [u |-> u, start |-> 0]
  ELSE IF u.nextIdx <= Len(u.targets)
    THEN [u |-> [u EXCEPT !.nextIdx = @ + 1, !.resolvingCount = @ + 1],
          start |-> u.nextIdx]
  ELSE IF PMapSettled(u)
    THEN [u |-> [u EXCEPT !.st = "resolved"], start |-> 0]
  ELSE [u |-> u, start |-> 0]

\* a mapper resolved: it is in flight no longer, and pMap's next() runs
MapperResolved(u) == PMapNext([u EXCEPT !.resolvingCount = @ - 1])

\* a mapper rejected: it is in flight no longer, pMap rejects with the first error,
\* and so does updateTargets
PMapReject(u, e) ==
  LET u1 == [u EXCEPT !.resolvingCount = @ - 1] IN
  IF u.st = "rejected" THEN u1 ELSE [u1 EXCEPT !.st = "rejected", !.err = e]

RECURSIVE BumpAll(_, _)
BumpAll(c, fs) == IF fs = <<>> THEN c ELSE BumpAll(Bump(c, Head(fs), 1), Tail(fs))

\* updateTargets(requestManager, orgId, targets, dryRun) up to its first await:
\* line 173, then pMap starts the mappers of the first TargetConcurrency targets
BeginUpdateTargets(targets, pathOk) ==
  IF ~pathOk
    THEN [u |-> [NoCall EXCEPT !.st = "rejected", !.targets = targets,
                               !.err = "LoggingPathError"],
          tks |-> NoTasks, called |-> <<"getLoggingPath">>]
  ELSE LET n == PMapStarts(Len(targets), TargetConcurrency) IN
    [u |-> [NoCall EXCEPT !.st = IF Len(targets) = 0 THEN "resolved" ELSE "mapping",
                          !.targets = targets, !.nextIdx = n + 1,
                          !.resolvingCount = n],
     tks |-> [j \in TargetIds |-> IF j <= n THEN StartTask(targets[j]) ELSE IdleTask],
     called |-> <<"getLoggingPath">> \o [k \in 1..n |-> "listProjects"]]

\* one continuation of target task j of updateTargets call i took the task to r.tk
\* and the call's locals to r.u: pMap reacts when the mapper settled
Settle(i, j, r) ==
  LET tks1 == [tasks[i] EXCEPT ![j] = [r.tk EXCEPT !.trace = @ \o r.called]]
      n == IF r.tk.pc = "done" THEN MapperResolved(r.u)
           ELSE IF r.tk.pc = "rejected"
             THEN [u |-> PMapReject(r.u, r.tk.err), start |-> 0]
           ELSE [u |-> r.u, start |-> 0]
  IN /\ ut' = [ut EXCEPT ![i] = n.u]
     /\ tasks' = [tasks EXCEPT ![i] =
                    IF n.start = 0 THEN tks1
                    ELSE [tks1 EXCEPT ![n.start] = StartTask(n.u.targets[n.start])]]
     /\ calls' = BumpAll(calls, r.called \o (IF n.start = 0 THEN <<>>
                                              ELSE <<"listProjects">>))

orgVars == <<sources, dryRun, orgPc, orgErr, flagSeen, allowed, res, out, src, orgTargets, logPathOk,
            configured, prev>>

\* listProjects settled for target task j of call i
ListProjectsSettles(i, j) ==
  /\ tasks[i][j].pc = "listProjects"
  /\ \E ok \in BOOLEAN :
       LET tk == tasks[i][j] IN
       IF ok
         THEN Settle(i, j, [u |-> ut[i],
                            tk |-> [tk EXCEPT !.pc = "getDefaultBranch",
                                       !.projects = ListedProjects(tk.target, branch)],
                            called |-> [k \in 1..DefaultBranchFetches(
                                                  ListedProjects(tk.target, branch))
                                          |-> "getDefaultBranch"]])
         ELSE Settle(i, j, Catch(ut[i], tk, j, "ListProjectsError"))
  /\ UNCHANGED <<orgVars, branch>>

\* the default-branch lookup settled for target task j of call i
DefaultBranchSettles(i, j) ==
  /\ tasks[i][j].pc = "getDefaultBranch"
  /\ \E b \in Branches \cup {"throw"} :
       LET tk == tasks[i][j] IN
       IF b # "throw"
         THEN Settle(i, j, Continue(ut[i], SyncLoop([tk EXCEPT !.to = b],
                                                      PassedDryRun(dryRun)), j))
         ELSE Settle(i, j, Catch(ut[i], tk, j, "DefaultBranchError"))
  /\ UNCHANGED <<orgVars, branch>>

\* the update call for the current project of target task j of call i settled
UpdateProjectSettles(i, j) ==
  /\ tasks[i][j].pc = "updateProject"
  /\ \E o \in {"ok"} \cup ErrorTexts :
       LET tk == [tasks[i][j] EXCEPT !.upd = Append(@, [k |-> tasks[i][j].idx, o |-> o])]
       IN
       /\ Settle(i, j, Continue(ut[i], SyncLoop(AfterUpdate(tk, o),
                                                PassedDryRun(dryRun)), j))
       /\ branch' = IF o = "ok" THEN [branch EXCEPT ![tk.projects[tk.idx].id] = tk.to]
                    ELSE branch
  /\ UNCHANGED orgVars

\* logUpdatedProjects settled for target task j of call i
LogUpdatedSettles(i, j) ==
  /\ tasks[i][j].pc = "logUpdated"
  /\ \E ok \in BOOLEAN :
       IF ok THEN Settle(i, j, AfterLogUpdated(ut[i], tasks[i][j]))
       ELSE Settle(i, j, Catch(ut[i], tasks[i][j], j, "LogUpdatedError"))
  /\ UNCHANGED <<orgVars, branch>>

\* logFailedToUpdateProjects settled for target task j of call i
LogFailedSettles(i, j) ==
  /\ tasks[i][j].pc = "logFailed"
  /\ \E ok \in BOOLEAN :
       IF ok THEN Settle(i, j, [u |-> ut[i], tk |-> [tasks[i][j] EXCEPT !.pc = "done"],
                                called |-> <<>>])
       ELSE Settle(i, j, Catch(ut[i], tasks[i][j], j, "LogFailedError"))
  /\ UNCHANGED <<orgVars, branch>>

\* logFailedSync settled for target task j of call i: the mapper resolves, or the
\* error leaves the catch block and the mapper rejects
LogFailedSyncSettles(i, j) ==
  /\ tasks[i][j].pc = "logFailedSync"
  /\ \E ok \in BOOLEAN :
       IF ok THEN Settle(i, j, [u |-> ut[i], tk |-> [tasks[i][j] EXCEPT !.pc = "done"],
                                called |-> <<>>])
       ELSE Settle(i, j, [u |-> ut[i],
                          tk |-> [tasks[i][j] EXCEPT !.pc = "rejected",
                                                     !.err = "LogFailedSyncError"],
                          called |-> <<>>])
  /\ UNCHANGED <<orgVars, branch>>

(* -------------------------- updateOrgTargets --------------------------- *)
EmptyRes == [processedTargets |-> 0, updated |-> <<>>, failed |-> <<>>]

IdleSource == [pc |-> "idle", source |-> "none", err |-> "none"]

\* lines 116-125: the targets handed to updateTargets are the ones listTargets
\* resolved with
TargetsPassedNone(listed) == <<>>

TargetsPassed(listed) == listed

\* lines 109-120: the mapper of a source up to its first await, or to the throw of
\* the configured-check
StartSource(source, tokenSet) ==
  [pc |-> IF tokenSet THEN "listTargets" ELSE "rejected", source |-> source,
   err |-> IF tokenSet THEN "none" ELSE "SourceNotConfigured"]

\* lines 68-70: the requested sources that are supported, in request order
AllowedSourcesAll(srcs) == srcs

RECURSIVE FirstOccurrences(_)
FirstOccurrences(s) ==
  IF s = <<>> THEN <<>>
  ELSE LET front == FirstOccurrences(SubSeq(s, 1, Len(s) - 1)) IN
       IF \E k \in 1..(Len(s) - 1) : s[k] = s[Len(s)] THEN front
       ELSE Append(front, s[Len(s)])

AllowedSourcesDeduplicated(srcs) ==
  FirstOccurrences(SelectSeq(srcs, LAMBDA s : s \in SupportedIntegrationTypesUpdateProject))

AllowedSources(srcs) ==
  SelectSeq(srcs, LAMBDA s : s \in SupportedIntegrationTypesUpdateProject)

\* lines 129-131: one source's response goes into res
MergeOverwrites(r, response) ==
  [processedTargets |-> response.processedTargets,
   updated |-> response.updatedProjects,
   failed |-> response.failedProjects]

Merge(r, response) ==
  [processedTargets |-> r.processedTargets + response.processedTargets,
   updated |-> r.updated \o response.updatedProjects,
   failed |-> r.failed \o response.failedProjects]

\* path.resolve(getLoggingPath(), name) as the pair it joins
PathResolve(dir, name) == <<dir, name>>

\* lines 136-150: the resolved path, or the bare file name when the resolver threw
LogFileName(pathOk, name) == IF pathOk THEN PathResolve("SNYK_LOG_PATH", name) ELSE <<name>>

\* updateOrgTargets rejects: the first rejection is the one the caller sees
OrgReject(e) ==
  /\ orgPc' = IF orgPc = "rejected" THEN orgPc ELSE "rejected"
  /\ orgErr' = IF orgPc = "rejected" THEN orgErr ELSE e

\* a caller invokes updateOrgTargets: lines 49-92, up to the await of getFeatureFlag
CallUpdateOrgTargets ==
  /\ orgPc = "idle"
  /\ \E srcs \in Requests, d \in BOOLEAN, n \in 0..MaxTargets, env \in BOOLEAN,
        token \in BOOLEAN :
       /\ logPathOk' = env
       /\ configured' = token
       /\ Len(AllowedSources(srcs)) * n <= MaxTargets
       /\ orgTargets' = [k \in 1..n |-> k]
       /\ sources' = srcs
       /\ dryRun' = d
       /\ allowed' = AllowedSources(srcs)
       /\ IF Len(AllowedSources(srcs)) = 0
            THEN /\ orgPc' = "rejected"
                 /\ orgErr' = "NothingToSync"
                 /\ calls' = calls
            ELSE /\ orgPc' = "getFeatureFlag"
                 /\ orgErr' = orgErr
                 /\ calls' = Bump(calls, "getFeatureFlag", 1)
  /\ UNCHANGED <<flagSeen, res, out, src, ut, tasks, branch, prev>>

\* getFeatureFlag settled: lines 93-134 up to the first await of every source task
\* the outer pMap starts (isSourceConfigured throws or listTargets is awaited).
\* The sources parameter is read at lines 68-70 only: the model forgets it here.
FeatureFlagSettles ==
  /\ orgPc = "getFeatureFlag"
  /\ \E flag \in {"true", "false", "throw"} :
       /\ flagSeen' = flag
       /\ IF flag = "throw"
            THEN OrgReject("OrgNotFound") /\ UNCHANGED <<src, calls>>
          ELSE IF flag = "true"
            THEN OrgReject("CustomBranch") /\ UNCHANGED <<src, calls>>
          ELSE LET n == PMapStarts(Len(allowed), SourceConcurrency) IN
            /\ src' = [i \in Slots |->
                         IF i > n
                           THEN [IdleSource EXCEPT !.source =
                                   IF i <= Len(allowed) THEN allowed[i] ELSE "none"]
                           ELSE StartSource(allowed[i], configured)]
            /\ calls' = Bump(Bump(calls, "isSourceConfigured", n), "listTargets",
                             IF configured THEN n ELSE 0)
            /\ IF configured THEN orgPc' = "mapping" /\ orgErr' = orgErr
               ELSE OrgReject("SourceNotConfigured")
  /\ sources' = <<>>
  /\ UNCHANGED <<dryRun, allowed, res, out, ut, tasks, orgTargets, logPathOk, configured,
                 branch, prev>>

\* listTargets settled for source task i: lines 116-128, into updateTargets up to
\* its first await
ListTargetsSettles(i) ==
  /\ src[i].pc = "listTargets"
  /\ \E ok \in BOOLEAN :
       IF ~ok
         THEN /\ src' = [src EXCEPT ![i].pc = "rejected", ![i].err = "ListTargetsError"]
              /\ OrgReject("ListTargetsError")
              /\ UNCHANGED <<ut, tasks, calls>>
         ELSE LET b == BeginUpdateTargets(TargetsPassed(orgTargets), logPathOk) IN
              /\ src' = [src EXCEPT ![i].pc = "updateTargets"]
              /\ ut' = [ut EXCEPT ![i] = b.u]
              /\ tasks' = [tasks EXCEPT ![i] = b.tks]
              /\ calls' = BumpAll(calls, b.called)
              /\ UNCHANGED <<orgPc, orgErr>>
  /\ UNCHANGED <<sources, dryRun, flagSeen, allowed, res, out, orgTargets, logPathOk,
                 configured, branch, prev>>

\* the outer pMap's next() after source task i resolved, and lines 136-151 when
\* that resolves the outer pMap
SourceDone(i, r) ==
  LET src1 == [src EXCEPT ![i].pc = "done"]
      idle == {k \in 1..Len(allowed) : src1[k].pc = "idle"}
  IN /\ res' = r
     /\ IF orgPc = "rejected"
          THEN UNCHANGED <<orgPc, orgErr, out, calls>> /\ src' = src1
        ELSE IF idle # {}
          THEN LET k == CHOOSE m \in idle : \A m2 \in idle : m <= m2 IN
               /\ src' = [src1 EXCEPT ![k] = StartSource(src1[k].source, configured)]
               /\ calls' = Bump(Bump(calls, "isSourceConfigured", 1), "listTargets",
                                IF configured THEN 1 ELSE 0)
               /\ IF configured THEN UNCHANGED <<orgPc, orgErr>>
                  ELSE OrgReject("SourceNotConfigured")
               /\ UNCHANGED out
        ELSE IF \A k \in 1..Len(allowed) : src1[k].pc = "done"
          THEN /\ src' = src1
               /\ orgPc' = "resolved"
               /\ orgErr' = orgErr
               /\ calls' = Bump(calls, "getLoggingPath", 2)
               /\ out' = [processedTargets |-> r.processedTargets,
                          updated |-> r.updated, failed |-> r.failed,
                          fileName |-> LogFileName(logPathOk, UPDATED_PROJECTS_LOG_NAME),
                          failedFileName |->
                            LogFileName(logPathOk, FAILED_UPDATE_PROJECTS_LOG_NAME)]
        ELSE UNCHANGED <<orgPc, orgErr, out, calls>> /\ src' = src1

\* the await of updateTargets in source task i settled: lines 129-131 and the
\* mapper's end, or the rejection leaves the mapper
UpdateTargetsSettles(i) ==
  /\ src[i].pc = "updateTargets"
  /\ ut[i].st \in {"resolved", "rejected"}
  /\ IF ut[i].st = "rejected"
       THEN /\ src' = [src EXCEPT ![i].pc = "rejected", ![i].err = ut[i].err]
            /\ OrgReject(ut[i].err)
            /\ UNCHANGED <<res, out, calls>>
       ELSE SourceDone(i, Merge(res, ut[i]))
  /\ UNCHANGED <<sources, dryRun, flagSeen, allowed, ut, tasks, orgTargets, logPathOk,
                 configured, branch, prev>>

(* ------------------ updateTargets, called on its own ------------------- *)
\* updateTargets is exported and can be handed any number of targets.  For a
\* batch longer than the concurrency bound the model keeps what pMap keeps, its
\* counters (the next index, the mappers in flight), and takes a mapper's body
\* (lines 178-203) as one step that settles: which target a mapper works on does
\* not matter to pMap.

\* a caller invokes updateTargets with n targets: lines 169-176
CallUpdateTargets ==
  /\ orgPc = "idle"
  /\ \E n \in 0..MaxPoolTargets, env \in BOOLEAN :
       LET b == BeginUpdateTargets([k \in 1..n |-> k], env) IN
       /\ logPathOk' = env
       /\ ut' = [ut EXCEPT ![1] = b.u]
       /\ calls' = BumpAll(calls, b.called)
  /\ orgPc' = "direct"
  /\ UNCHANGED <<sources, dryRun, orgErr, flagSeen, allowed, res, out, src, tasks,
                 orgTargets, configured, branch, prev>>

\* one mapper of the direct call settles: it resolves (try block or catch block ran
\* to its end) or rejects (logFailedSync threw inside the catch block)
MapperSettles ==
  /\ orgPc = "direct"
  /\ ut[1].resolvingCount > 0
  /\ \E ok \in BOOLEAN :
       IF ok
         THEN LET n == MapperResolved(ut[1]) IN
              /\ ut' = [ut EXCEPT ![1] = n.u]
              /\ calls' = IF n.start = 0 THEN calls ELSE Bump(calls, "listProjects", 1)
         ELSE /\ ut' = [ut EXCEPT ![1] = PMapReject(ut[1], "LogFailedSyncError")]
              /\ calls' = calls
  /\ UNCHANGED <<orgVars, tasks, branch>>

(* ------------------------------ a second run -------------------------- *)
\* The caller repeats the call of updateOrgTargets, with the same arguments, once
\* the first run resolved: lines 49-92 again.  The platform keeps the
\* branches the first run's update calls recorded; the caller keeps what the first
\* run returned and how its targets went, and the call counters restart.
NoPrev == [set |-> FALSE]

\* how the provider and the platform answered target task tk: did the project
\* listing throw, did the default-branch lookup throw, which branch came back
Answers(tk) ==
  [listThrew |-> tk.err = "ListProjectsError",
   fetchThrew |-> tk.err = "DefaultBranchError",
   to |-> tk.to]

\* what the caller keeps of a run that resolved: the returned counter, the
\* returned records (how many, which, and target by target for every updateTargets
\* call), and the answers every target task got
Kept ==
  [set |-> TRUE,
   processedTargets |-> out.processedTargets,
   updatedCount |-> Len(out.updated),
   updated |-> {out.updated[k] : k \in DOMAIN out.updated},
   failedCount |-> Len(out.failed),
   blocks |-> [i \in Slots |-> [t \in TargetIds |->
                 SelectSeq(ut[i].updatedProjects, LAMBDA r : r.target = t)]],
   answers |-> [i \in Slots |-> [j \in TargetIds |-> Answers(tasks[i][j])]]]

\* the second run is followed where the first was a dryRun run or one whose
\* update calls all succeeded
CallUpdateOrgTargetsAgain ==
  /\ orgPc = "resolved"
  /\ ~prev.set
  /\ dryRun \/ out.failed = <<>>
  /\ prev' = Kept
  /\ orgPc' = "getFeatureFlag"
  /\ calls' = [f \in Collaborators |-> IF f = "getFeatureFlag" THEN 1 ELSE 0]
  /\ flagSeen' = "none"
  /\ res' = EmptyRes
  /\ out' = "none"
  /\ src' = [i \in Slots |-> IdleSource]
  /\ ut' = [i \in Slots |-> NoCall]
  /\ tasks' = [i \in Slots |-> NoTasks]
  /\ UNCHANGED <<sources, dryRun, orgErr, allowed, orgTargets, logPathOk, configured,
                 branch>>

\* The provider and the platform answer the second run as they answered the first:
\* the feature flag is still off, the targets are listed again, and for every
\* target the project listing and the default-branch lookup settle as they did.
PastListing(tk) == tk.pc \notin {"idle", "listProjects"}

PastFetch(tk) == PastListing(tk) /\ tk.pc # "getDefaultBranch" /\ tk.err # "ListProjectsError"

SameAnswers ==
  prev.set =>
    /\ flagSeen \in {"none", "false"}
    /\ \A i \in Slots :
         /\ src[i].err # "ListTargetsError"
         /\ \A j \in TargetIds :
              LET now == Answers(tasks[i][j])
                  was == prev.answers[i][j]
              IN /\ PastListing(tasks[i][j]) => now.listThrew = was.listThrew
                 /\ PastFetch(tasks[i][j]) =>
                      now.fetchThrew = was.fetchThrew /\ now.to = was.to

(* --------------------------- specification ----------------------------- *)
Init ==
  /\ sources = <<>>
  /\ dryRun = FALSE
  /\ orgPc = "idle"
  /\ orgErr = "none"
  /\ flagSeen = "none"
  /\ allowed = <<>>
  /\ res = EmptyRes
  /\ out = "none"
  /\ src = [i \in Slots |-> IdleSource]
  /\ ut = [i \in Slots |-> NoCall]
  /\ tasks = [i \in Slots |-> NoTasks]
  /\ orgTargets = <<>>
  /\ logPathOk = TRUE
  /\ configured = TRUE
  /\ branch \in InitialBranches
  /\ calls = [f \in Collaborators |-> 0]
  /\ prev = NoPrev

Next ==
  \/ CallUpdateOrgTargets
  \/ FeatureFlagSettles
  \/ \E i \in Slots : ListTargetsSettles(i)
  \/ \E i \in Slots : UpdateTargetsSettles(i)
  \/ \E i \in Slots, j \in TargetIds : ListProjectsSettles(i, j)
  \/ \E i \in Slots, j \in TargetIds : DefaultBranchSettles(i, j)
  \/ \E i \in Slots, j \in TargetIds : UpdateProjectSettles(i, j)
  \/ \E i \in Slots, j \in TargetIds : LogUpdatedSettles(i, j)
  \/ \E i \in Slots, j \in TargetIds : LogFailedSettles(i, j)
  \/ \E i \in Slots, j \in TargetIds : LogFailedSyncSettles(i, j)

Spec == Init /\ [][Next]_vars

\* the runs of updateOrgTargets, and the direct calls of updateTargets with long
\* batches
PoolNext ==
  \/ Next
  \/ CallUpdateTargets
  \/ MapperSettles

PoolSpec == Init /\ [][PoolNext]_vars

\* the runs of updateOrgTargets, each followed by a second run
RerunNext ==
  \/ CallUpdateOrgTargets
  \/ CallUpdateOrgTargetsAgain
  \/ FeatureFlagSettles /\ SameAnswers'
  \/ \E i \in Slots : ListTargetsSettles(i) /\ SameAnswers'
  \/ \E i \in Slots : UpdateTargetsSettles(i)
  \/ \E i \in Slots, j \in TargetIds : ListProjectsSettles(i, j) /\ SameAnswers'
  \/ \E i \in Slots, j \in TargetIds : DefaultBranchSettles(i, j) /\ SameAnswers'
  \/ \E i \in Slots, j \in TargetIds : UpdateProjectSettles(i, j)
  \/ \E i \in Slots, j \in TargetIds : LogUpdatedSettles(i, j)
  \/ \E i \in Slots, j \in TargetIds : LogFailedSettles(i, j)
  \/ \E i \in Slots, j \in TargetIds : LogFailedSyncSettles(i, j)

RerunSpec == Init /\ [][RerunNext]_vars

(* ------------------------- reading the state --------------------------- *)
Range(s) == {s[k] : k \in DOMAIN s}

\* the records of sequence s that carry target t, in order
RecordsOf(s, t) == SelectSeq(s, LAMBDA r : r.target = t)

\* the records of sequence s for project p, in order
RecordsFor(s, p) == SelectSeq(s, LAMBDA r : r.projectPublicId = p)

\* the target tasks of updateTargets call i
TasksOf(i) == 1..Len(ut[i].targets)

\* syncProjectsForTarget threw for this task (project listing or default branch)
SyncThrew(tk) == tk.err \in {"ListProjectsError", "DefaultBranchError"}

\* the failure boundary was taken for this task: logFailedSync was called
BoundaryTaken(tk) == Len(tk.logS) # 0

\* the mapper ran its try block to the end
CompletedSuccessfully(tk) == tk.pc = "done" /\ tk.err = "none"

\* the outcome of the update call issued for project k of the task, "none" if none
UpdateOutcome(tk, k) ==
  IF \E x \in Range(tk.upd) : x.k = k
    THEN (CHOOSE x \in Range(tk.upd) : x.k = k).o
    ELSE "none"

Orders(n) == {f \in [1..n -> 1..n] : \A a, b \in 1..n : f[a] = f[b] => a = b}

GateErrors == {"NothingToSync", "OrgNotFound", "CustomBranch"}

(* ------------------------------- claims -------------------------------- *)

\* C1: when updateTargets returns, a target whose syncProjectsForTarget call threw is
\* not counted in processedTargets and has no record in updated or failed, and every
\* other target of the batch is counted and its records are returned as it produced
\* them.
C1_ThrownTargetSkippedOthersKept ==
  \A i \in Slots :
    ut[i].st = "resolved" =>
      /\ \A j \in TasksOf(i) :
           LET tk == tasks[i][j] IN
           IF SyncThrew(tk)
             THEN /\ j \notin ut[i].processed
                  /\ RecordsOf(ut[i].updatedProjects, tk.target) = <<>>
                  /\ RecordsOf(ut[i].failedProjects, tk.target) = <<>>
             ELSE /\ tk.synced
                  /\ j \in ut[i].processed
                  /\ RecordsOf(ut[i].updatedProjects, tk.target) = tk.updated
                  /\ RecordsOf(ut[i].failedProjects, tk.target) = tk.failed
      /\ ut[i].processedTargets =
           Cardinality({j \in TasksOf(i) : ~SyncThrew(tasks[i][j])})

C1_Witness ==
  \E i \in Slots :
    /\ ut[i].st = "resolved"
    /\ \E j, k \in TasksOf(i) :
         /\ SyncThrew(tasks[i][j])
         /\ ~SyncThrew(tasks[i][k])
         /\ Len(tasks[i][k].updated) # 0
         /\ Len(tasks[i][k].failed) # 0

\* C2: when updateTargets returns, no target for which the failure boundary was taken
\* (logFailedSync was called) is counted in processedTargets or has a record in
\* updated or failed.
C2_BoundaryTargetsDropped ==
  \A i \in Slots :
    ut[i].st = "resolved" =>
      \A j \in TasksOf(i) :
        BoundaryTaken(tasks[i][j]) =>
          /\ j \notin ut[i].processed
          /\ RecordsOf(ut[i].updatedProjects, tasks[i][j].target) = <<>>
          /\ RecordsOf(ut[i].failedProjects, tasks[i][j].target) = <<>>

\* C3: a run that passed the source filter and the feature-flag gate is never
\* rejected because the logging-path resolver throws: no updateTargets call and not
\* updateOrgTargets itself rejects with the resolver's error.
C3_LoggingPathFailureRecovered ==
  (flagSeen = "false" /\ ~logPathOk) =>
    /\ ~(orgPc = "rejected" /\ orgErr = "LoggingPathError")
    /\ \A i \in Slots : ~(ut[i].st = "rejected" /\ ut[i].err = "LoggingPathError")

\* C4: when updateTargets returns, a project whose update call rejected has exactly
\* one record in failed, with a message that holds the project id and the upstream
\* error text, and none in updated; its target is counted in processedTargets; and
\* every other project of the target that needed a change has its one record too.
C4_RejectedUpdateBecomesFailure ==
  \A i \in Slots :
    ut[i].st = "resolved" =>
      \A j \in TasksOf(i) :
        LET tk == tasks[i][j] IN
        \A k \in DOMAIN tk.projects :
          UpdateOutcome(tk, k) \in ErrorTexts =>
            LET p == tk.projects[k]
                f == RecordsFor(ut[i].failedProjects, p.id)
            IN /\ Len(f) = 1
               /\ ToString(p.id) \in Range(f[1].errorMessage)
               /\ UpdateOutcome(tk, k) \in Range(f[1].errorMessage)
               /\ f[1].from = p.branch /\ f[1].to = tk.to /\ f[1].target = tk.target
               /\ RecordsFor(ut[i].updatedProjects, p.id) = <<>>
               /\ j \in ut[i].processed
               /\ \A m \in DOMAIN tk.projects :
                    NeedsUpdate(tk.projects[m], tk.to) =>
                      Len(RecordsFor(ut[i].updatedProjects, tk.projects[m].id))
                        + Len(RecordsFor(ut[i].failedProjects, tk.projects[m].id)) = 1

C4_Witness ==
  \E i \in Slots :
    /\ ut[i].st = "resolved"
    /\ \E j \in TasksOf(i) :
         /\ \E k \in DOMAIN tasks[i][j].projects :
              UpdateOutcome(tasks[i][j], k) \in ErrorTexts
         /\ \E k \in DOMAIN tasks[i][j].projects :
              UpdateOutcome(tasks[i][j], k) = "ok"

\* C5: the org gate comes before all target work.  A request without a supported
\* source is rejected without reading the feature flag; a feature-flag lookup that
\* throws or returns true rejects the call; in each of these cases no other
\* collaborator was ever invoked; the feature flag is read at most once, and no
\* target lister call happens unless it was read and returned false.
C5_GateBeforeTargetWork ==
  /\ (orgPc = "getFeatureFlag" \/ orgErr = "NothingToSync") =>
       ((orgErr = "NothingToSync" /\ orgPc = "rejected") <=>
          (\A k \in DOMAIN sources :
             sources[k] \notin SupportedIntegrationTypesUpdateProject))
  /\ flagSeen \in {"true", "throw"} =>
       orgPc = "rejected" /\ orgErr = (IF flagSeen = "true" THEN "CustomBranch"
                                       ELSE "OrgNotFound")
  /\ (orgPc = "rejected" /\ orgErr \in GateErrors) =>
       \A f \in Collaborators \ {"getFeatureFlag"} : calls[f] = 0
  /\ orgErr = "NothingToSync" => calls["getFeatureFlag"] = 0
  /\ calls["getFeatureFlag"] <= 1
  /\ calls["listTargets"] > 0 => calls["getFeatureFlag"] = 1 /\ flagSeen = "false"

C5_Witness ==
  /\ orgPc = "rejected"
  /\ orgErr = "CustomBranch"
  /\ calls["getFeatureFlag"] = 1

\* C6: in a dryRun run the update call is never issued; when updateTargets returns,
\* failed is empty and every project of a synchronized target whose recorded branch
\* differs from the fetched default branch has exactly one record in updated, with
\* dryRun true, from the recorded branch and to the fetched one.
C6_DryRunNeverUpdates ==
  dryRun =>
    /\ calls["updateProject"] = 0
    /\ orgPc = "resolved" => out.failed = <<>>
    /\ \A i \in Slots :
         ut[i].st = "resolved" =>
           /\ ut[i].failedProjects = <<>>
           /\ \A j \in TasksOf(i) :
                LET tk == tasks[i][j] IN
                tk.synced =>
                  \A k \in DOMAIN tk.projects :
                    tk.projects[k].branch # tk.to =>
                      RecordsFor(ut[i].updatedProjects, tk.projects[k].id) =
                        << [projectPublicId |-> tk.projects[k].id,
                            from |-> tk.projects[k].branch, to |-> tk.to,
                            type |-> "branch", dryRun |-> TRUE,
                            target |-> tk.target] >>

C6_Witness ==
  /\ dryRun
  /\ orgPc = "resolved"
  /\ Len(out.updated) >= 2

\* C7: when updateTargets returns, a project of a synchronized target whose recorded
\* branch equals the fetched default branch has no record in updated or failed, and
\* one whose branches differ, with dryRun false and a successful update call, has
\* exactly one record in updated, with dryRun false, from the recorded branch and to
\* the fetched one, and no record in failed.
C7_OutcomeFollowsBranches ==
  \A i \in Slots :
    ut[i].st = "resolved" =>
      \A j \in TasksOf(i) :
        LET tk == tasks[i][j] IN
        tk.synced =>
          \A k \in DOMAIN tk.projects :
            LET p == tk.projects[k] IN
            /\ p.branch = tk.to =>
                 /\ RecordsFor(ut[i].updatedProjects, p.id) = <<>>
                 /\ RecordsFor(ut[i].failedProjects, p.id) = <<>>
            /\ (p.branch # tk.to /\ ~dryRun /\ UpdateOutcome(tk, k) = "ok") =>
                 /\ RecordsFor(ut[i].updatedProjects, p.id) =
                      << [projectPublicId |-> p.id, from |-> p.branch, to |-> tk.to,
                          type |-> "branch", dryRun |-> FALSE, target |-> tk.target] >>
                 /\ RecordsFor(ut[i].failedProjects, p.id) = <<>>

C7_Witness ==
  \E i \in Slots :
    /\ ut[i].st = "resolved"
    /\ ~dryRun
    /\ \E j \in TasksOf(i) :
         /\ tasks[i][j].synced
         /\ \E k \in DOMAIN tasks[i][j].projects :
              tasks[i][j].projects[k].branch = tasks[i][j].to
         /\ \E k \in DOMAIN tasks[i][j].projects :
              UpdateOutcome(tasks[i][j], k) = "ok"

\* C8: when updateTargets returns, every project the batch listed has at most one
\* record in updated and failed together: it is absent from both, once in updated,
\* or once in failed.
C8_OneOutcomePerProject ==
  \A i \in Slots :
    ut[i].st = "resolved" =>
      \A p \in AllProjects :
        Len(RecordsFor(ut[i].updatedProjects, p))
          + Len(RecordsFor(ut[i].failedProjects, p)) <= 1

C8_Witness ==
  \E i \in Slots :
    /\ ut[i].st = "resolved"
    /\ Len(ut[i].updatedProjects) >= 1
    /\ Len(ut[i].failedProjects) >= 1
    /\ \E j \in TasksOf(i) :
         /\ tasks[i][j].synced
         /\ \E k \in DOMAIN tasks[i][j].projects :
              ~NeedsUpdate(tasks[i][j].projects[k], tasks[i][j].to)

\* C9: when updateOrgTargets resolves, processedTargets is the sum of the
\* processedTargets of the per-source updateTargets calls, and updated and failed
\* are the per-source sequences concatenated in one order of the sources.
C9_MergeIsSumAndConcatenation ==
  orgPc = "resolved" =>
    LET n == Len(allowed) IN
    /\ out.processedTargets = SumSeq([i \in 1..n |-> ut[i].processedTargets])
    /\ \E f \in Orders(n) :
         /\ out.updated = Flatten([k \in 1..n |-> ut[f[k]].updatedProjects])
         /\ out.failed = Flatten([k \in 1..n |-> ut[f[k]].failedProjects])

C9_Witness ==
  /\ orgPc = "resolved"
  /\ Len(allowed) = 2
  /\ Len(ut[1].updatedProjects) # 0
  /\ Len(ut[2].updatedProjects) # 0
  /\ ut[1].updatedProjects # ut[2].updatedProjects
  /\ out.updated = ut[2].updatedProjects \o ut[1].updatedProjects

\* C10: a target task that completed successfully called logUpdatedProjects exactly
\* once, with its updated records, if it has any and never otherwise, and the same
\* for logFailedToUpdateProjects and its failed records; a task whose
\* syncProjectsForTarget threw called neither; and every call of either logger
\* carried records of the calling task's target only.
C10_LoggingPerTarget ==
  \A i \in Slots :
    \A j \in TasksOf(i) :
      LET tk == tasks[i][j] IN
      /\ CompletedSuccessfully(tk) =>
           /\ tk.logU = IF Len(tk.updated) # 0 THEN <<tk.updated>> ELSE <<>>
           /\ tk.logF = IF Len(tk.failed) # 0 THEN <<tk.failed>> ELSE <<>>
           /\ tk.updated = RecordsOf(ut[i].updatedProjects, tk.target)
           /\ tk.failed = RecordsOf(ut[i].failedProjects, tk.target)
      /\ SyncThrew(tk) => tk.logU = <<>> /\ tk.logF = <<>>
      /\ \A a \in Range(tk.logU) \cup Range(tk.logF) :
           \A r \in Range(a) : r.target = tk.target

C10_Witness ==
  \E i \in Slots :
    \E j, k \in TasksOf(i) :
      /\ CompletedSuccessfully(tasks[i][j])
      /\ Len(tasks[i][j].logU) = 1
      /\ Len(tasks[i][j].logF) = 1
      /\ tasks[i][k].pc \notin {"done", "rejected"}

\* C11: in every reachable state at most TargetConcurrency target tasks of one
\* updateTargets call are in flight (started and not finished) and at most
\* SourceConcurrency source tasks of updateOrgTargets are; pMap's count of the
\* mappers in flight is the number of target tasks that stand at an await, and the
\* targets started are the first nextIdx - 1 of the batch.
InFlight(i) == {j \in TargetIds : tasks[i][j].pc \notin {"idle", "done", "rejected"}}

SourcesInFlight == {i \in Slots : src[i].pc \in {"listTargets", "updateTargets"}}

C11_BoundedConcurrency ==
  /\ \A i \in Slots :
       /\ ut[i].resolvingCount <= TargetConcurrency
       /\ ut[i].resolvingCount <= ut[i].nextIdx - 1
       /\ ut[i].nextIdx - 1 <= Len(ut[i].targets)
       /\ orgPc # "direct" =>
            /\ ut[i].resolvingCount = Cardinality(InFlight(i))
            /\ \A j \in TargetIds : tasks[i][j].pc # "idle" <=> j < ut[i].nextIdx
  /\ Cardinality(SourcesInFlight) <= SourceConcurrency
  /\ \A i \in Slots : src[i].pc # "idle" =>
       \A k \in 1..(i - 1) : src[k].pc # "idle"

\* twenty mappers are in flight, one of them started when an earlier one settled,
\* and another target of the batch still waits for a slot
C11_Witness ==
  /\ ut[1].resolvingCount = TargetConcurrency
  /\ ut[1].nextIdx = TargetConcurrency + 2
  /\ Len(ut[1].targets) = TargetConcurrency + 2
  /\ ut[1].st = "mapping"

\* C12: an updateTargets call never rejects, every target handed to it is started,
\* and when the call resolves every target task has reached its end (synchronized,
\* or failed and caught).
C12_EveryTargetRunsAndCallResolves ==
  \A i \in Slots :
    ut[i].st # "none" =>
      /\ ut[i].st # "rejected"
      /\ \A j \in TasksOf(i) : tasks[i][j].pc # "idle"
      /\ ut[i].st = "resolved" => \A j \in TasksOf(i) : tasks[i][j].pc = "done"

\* C13: the updated and failed sequences of an updateTargets call hold the records
\* of its targets in the order in which their syncProjectsForTarget calls resolved:
\* each target's records form one block, in the order the target returned them, and
\* the blocks follow the completion order, not the input order.
C13_RecordsInCompletionOrder ==
  \A i \in Slots :
    LET c == ut[i].completed IN
    /\ ut[i].updatedProjects = Flatten([k \in 1..Len(c) |-> tasks[i][c[k]].updated])
    /\ ut[i].failedProjects = Flatten([k \in 1..Len(c) |-> tasks[i][c[k]].failed])

\* the second target of the batch completed first, with records in both sequences
C13_Witness ==
  \E i \in Slots :
    /\ ut[i].st = "resolved"
    /\ ut[i].completed = <<2, 1>>
    /\ Len(tasks[i][2].updated) # 0
    /\ Len(tasks[i][2].failed) # 0
    /\ Len(tasks[i][1].updated) # 0
    /\ ut[i].updatedProjects = tasks[i][2].updated \o tasks[i][1].updated

\* C14: for every source task, listTargets is called only after the configured-check
\* returned, and updateTargets only after listTargets resolved, with the targets it
\* resolved with; when the configured-check or listTargets throws for a source,
\* updateTargets is not called for it, none of its targets is started, and
\* updateOrgTargets rejects.
SourceThrew(i) == src[i].err \in {"SourceNotConfigured", "ListTargetsError"}

C14_SourcePipelineOrder ==
  /\ calls["listTargets"] =
       Cardinality({i \in Slots : src[i].pc # "idle" /\ src[i].err # "SourceNotConfigured"})
  /\ calls["isSourceConfigured"] = Cardinality({i \in Slots : src[i].pc # "idle"})
  /\ calls["listTargets"] > 0 => configured
  /\ \A i \in Slots :
       /\ src[i].pc \in {"idle", "listTargets"} => ut[i].st = "none"
       /\ ut[i].st # "none" =>
            /\ ~SourceThrew(i)
            /\ configured
            /\ ut[i].targets = orgTargets
       /\ SourceThrew(i) =>
            /\ ut[i].st = "none"
            /\ \A j \in TargetIds : tasks[i][j].pc = "idle"
            /\ orgPc = "rejected"
            /\ src[i].pc = "rejected"

\* the lister threw for one source while another source's targets were synchronized
C14_Witness ==
  \E i, k \in Slots :
    /\ src[i].err = "ListTargetsError"
    /\ ut[k].st = "resolved"
    /\ Len(ut[k].targets) # 0
    /\ ut[k].processedTargets # 0
    /\ orgPc = "rejected"

\* C15: every record in the updated and failed sequences of an updateTargets call
\* carries a target of the batch; the record is one the task of that target
\* produced, its project is one listed under that target, and its to branch is the
\* default branch fetched for that target.  The same holds for the records
\* updateOrgTargets returns, for one of its updateTargets calls.
OwnRecord(i, r) ==
  \E j \in TasksOf(i) :
    /\ ut[i].targets[j] = r.target
    /\ tasks[i][j].target = r.target
    /\ r.to = tasks[i][j].to
    /\ r \in Range(tasks[i][j].updated) \cup Range(tasks[i][j].failed)
    /\ \E k \in DOMAIN tasks[i][j].projects :
         /\ tasks[i][j].projects[k].id = r.projectPublicId
         /\ tasks[i][j].projects[k].branch = r.from
    /\ r.projectPublicId \in ProjectsOf(r.target)

C15_RecordsCarryOwnTarget ==
  /\ \A i \in Slots :
       \A r \in Range(ut[i].updatedProjects) \cup Range(ut[i].failedProjects) :
         OwnRecord(i, r)
  /\ orgPc = "resolved" =>
       \A r \in Range(out.updated) \cup Range(out.failed) :
         \E i \in 1..Len(allowed) : OwnRecord(i, r)

\* two targets of one batch, in flight together, fetched different default
\* branches and both produced records
C15_Witness ==
  \E i \in Slots :
    /\ ut[i].st = "resolved"
    /\ tasks[i][1].to # tasks[i][2].to
    /\ Len(tasks[i][1].updated) + Len(tasks[i][1].failed) # 0
    /\ Len(tasks[i][2].updated) + Len(tasks[i][2].failed) # 0
    /\ Len(ut[i].updatedProjects) + Len(ut[i].failedProjects) >= 2

\* C16: every started target task called the project lister exactly once and the
\* default-branch fetcher at most once, whatever the number of its projects; the
\* fetcher is called only once the listing resolved, so second in the task's calls,
\* and every update call of the task comes after the fetch, when the fetched branch
\* is known.  The counters of the run agree: one listing per started task.
Positions(tr, f) == {k \in DOMAIN tr : tr[k] = f}

C16_OneListingOneFetchPerTarget ==
  /\ \A i \in Slots :
       \A j \in TargetIds :
         LET tk == tasks[i][j] IN
         tk.pc # "idle" =>
           /\ Positions(tk.trace, "listProjects") = {1}
           /\ Positions(tk.trace, "getDefaultBranch") \subseteq {2}
           /\ tk.pc = "listProjects" => Len(tk.trace) = 1
           /\ \A k \in Positions(tk.trace, "updateProject") :
                /\ k > 2
                /\ tk.trace[2] = "getDefaultBranch"
                /\ tk.to \in Branches
           /\ Cardinality(Positions(tk.trace, "updateProject")) <= Len(tk.projects)
  /\ calls["listProjects"] =
       Cardinality({<<i, j>> \in Slots \X TargetIds : tasks[i][j].pc # "idle"})
  /\ calls["getDefaultBranch"] <= calls["listProjects"]

\* a target with two projects ran to its end: one listing, one fetch, two update calls
C16_Witness ==
  \E i \in Slots :
    \E j \in TasksOf(i) :
      /\ tasks[i][j].pc = "done"
      /\ Len(tasks[i][j].projects) >= 2
      /\ Cardinality(Positions(tasks[i][j].trace, "updateProject")) >= 2
      /\ Cardinality(Positions(tasks[i][j].trace, "getDefaultBranch")) = 1

\* C17: a second run with the same arguments, answered by the provider as the first
\* was, with one default branch per target throughout.  After a first run without
\* dryRun in which every update call succeeded, the second run returns the same
\* processedTargets, empty updated and failed, and issues no update call.  After a
\* dryRun run, the second dryRun run returns the same updated records: target by
\* target the same block in every updateTargets call, and the same records overall.
OneBranchPerTarget ==
  \A i, k \in Slots :
    \A j \in TargetIds :
      (prev.answers[i][j].to # "none" /\ prev.answers[k][j].to # "none") =>
        prev.answers[i][j].to = prev.answers[k][j].to

C17_SecondRunChangesNothing ==
  (prev.set /\ orgPc = "resolved" /\ OneBranchPerTarget) =>
    /\ (~dryRun /\ prev.failedCount = 0) =>
         /\ out.processedTargets = prev.processedTargets
         /\ out.updated = <<>>
         /\ out.failed = <<>>
         /\ calls["updateProject"] = 0
    /\ dryRun =>
         /\ out.processedTargets = prev.processedTargets
         /\ Len(out.updated) = prev.updatedCount
         /\ Range(out.updated) = prev.updated
         /\ out.failed = <<>>
         /\ \A i \in Slots :
              \A t \in TargetIds :
                RecordsOf(ut[i].updatedProjects, t) = prev.blocks[i][t]

\* the first run updated two projects or more, the second run found nothing to do
C17_Witness ==
  /\ prev.set
  /\ orgPc = "resolved"
  /\ OneBranchPerTarget
  /\ ~dryRun
  /\ prev.failedCount = 0
  /\ prev.updatedCount >= 2
  /\ prev.processedTargets >= 2
  /\ out.updated = <<>>
  /\ out.processedTargets = prev.processedTargets

\* C18: when an updateTargets call has resolved, every target task of the call is at
\* its end and none is in flight, and no later step changes the call's counters,
\* its updated and failed sequences or its tasks; when updateOrgTargets has
\* resolved, every source task is at its end, every updateTargets call has resolved,
\* the returned value is what was accumulated, and no later step changes anything.
QuietAtReturn ==
  /\ \A i \in Slots :
       ut[i].st = "resolved" =>
         /\ \A j \in TasksOf(i) : tasks[i][j].pc = "done"
         /\ InFlight(i) = {}
         /\ ut[i].nextIdx = Len(ut[i].targets) + 1
         /\ ut[i].processedTargets = Cardinality(ut[i].processed)
  /\ orgPc = "resolved" =>
       /\ SourcesInFlight = {}
       /\ \A i \in 1..Len(allowed) : src[i].pc = "done" /\ ut[i].st = "resolved"
       /\ out.processedTargets = res.processedTargets
       /\ out.updated = res.updated
       /\ out.failed = res.failed

FinalAfterReturn ==
  /\ \A i \in Slots :
       ut[i].st = "resolved" => (ut'[i] = ut[i] /\ tasks'[i] = tasks[i])
  /\ orgPc = "resolved" => UNCHANGED <<orgPc, out, res, ut, tasks, src, branch>>

C18_QuiescenceAtReturn == []QuietAtReturn /\ [][FinalAfterReturn]_vars

\* one updateTargets call has resolved with a counted target while the call of
\* another source is still mapping
C18_Witness ==
  \E i, k \in Slots :
    /\ ut[i].st = "resolved"
    /\ ut[i].processedTargets # 0
    /\ Len(ut[i].updatedProjects) # 0
    /\ src[i].pc = "done"
    /\ ut[k].st = "mapping"
    /\ InFlight(k) # {}

\* C19: the allowed sources are the supported entries of the request, one for each
\* occurrence and in request order, whatever unsupported entries stand between
\* them; every allowed source gets its own listTargets call and its own
\* updateTargets call over the same targets; and when updateOrgTargets resolves,
\* processedTargets counts a target once for every call that synchronized it and a
\* project has as many records in updated (in failed) as there are calls that
\* produced one, up to the number of occurrences.
Occurrences(srcs) ==
  {k \in DOMAIN srcs : srcs[k] \in SupportedIntegrationTypesUpdateProject}

C19_DuplicatesKept ==
  /\ orgPc = "getFeatureFlag" /\ ~prev.set =>
       /\ Len(allowed) = Cardinality(Occurrences(sources))
       /\ \A i \in 1..Len(allowed) :
            allowed[i] \in SupportedIntegrationTypesUpdateProject
  /\ \A i \in Slots : src[i].pc # "idle" => i <= Len(allowed)
  /\ \A i \in Slots : ut[i].st # "none" => ut[i].targets = orgTargets
  /\ orgPc = "resolved" =>
       LET k == Len(allowed) IN
       /\ calls["listTargets"] = k
       /\ \A i \in 1..k : ut[i].st = "resolved"
       /\ out.processedTargets =
            SumSeq([i \in 1..k |-> Cardinality(ut[i].processed)])
       /\ (\A i \in 1..k : \A j \in TasksOf(i) : tasks[i][j].synced) =>
            out.processedTargets = k * Len(orgTargets)
       /\ \A p \in AllProjects :
            /\ Len(RecordsFor(out.updated, p)) =
                 Cardinality({i \in 1..k : RecordsFor(ut[i].updatedProjects, p) # <<>>})
            /\ Len(RecordsFor(out.failed, p)) =
                 Cardinality({i \in 1..k : RecordsFor(ut[i].failedProjects, p) # <<>>})
            /\ Len(RecordsFor(out.updated, p)) + Len(RecordsFor(out.failed, p)) <= k

\* the supported source was requested twice: its target was synchronized twice and
\* its project stands twice in updated
C19_Witness ==
  /\ orgPc = "resolved"
  /\ Len(allowed) = 2
  /\ Len(orgTargets) = 1
  /\ out.processedTargets = 2
  /\ \E p \in AllProjects : Len(RecordsFor(out.updated, p)) = 2

====
